---- MODULE Spec2Model ----
(***************************************************************************)
(* ClauseCheck frontend: the results dashboard (derived metrics, score     *)
(* rings, shared chart tooltip) and the scroll-reveal hook.                *)
(*                                                                         *)
(* Colours are the hex strings of the code.  A value that may be absent    *)
(* (undefined) is a sequence of length at most one; a string the code      *)
(* rewrites is the sequence of its characters.  Times are in centiseconds  *)
(* (10 ms); lengths on a gauge are in 1/100000 of the circumference and    *)
(* opacities and eased progress in per-mille, so that the values the code  *)
(* computes in floating point are integers here.  The IntersectionObserver *)
(* delivers its callback only while it observes the container; anime.js    *)
(* runs every instance it was handed until that instance has finished.     *)
(***************************************************************************)
EXTENDS Integers, Sequences, FiniteSets, TLC

(* ------------------------------ bounds --------------------------------- *)

\* scores handed to the pages range over -ScoreSlack .. 100 + ScoreSlack
ScoreSlack == 3
\* chart instances sharing the tooltip overlay
NumCharts == 3
\* immediate children of a revealed container
NumChildren == 2
\* interval between two animation frames, in centiseconds
FrameCs == 40
\* animations the engine runs at once before a further score change waits
MaxInstances == 4
\* intersecting callbacks counted per reveal instance
MaxEntered == 3
\* risks of an analysis result
MaxRisks == 3
\* compliance checks of an analysis result
MaxDetails == 8
\* findings in each ambiguity list of an analysis result
MaxTerms == 1

Scores == (0 - ScoreSlack) .. (100 + ScoreSlack)

\* scores handed to an animated gauge
GaugeScores == {0 - ScoreSlack, 0, 30, 100, 100 + ScoreSlack}

(* --------------------------- state ------------------------------------- *)

VARIABLES
    \* Dashboard / ResultsPage props and what the last render derived
    risk_score, compliance_score, dash, page,
    \* the analysis result the results page loaded, and the chart and grid
    \* data the Dashboard derived from it
    result, derived,
    \* shared tooltip overlay: the elements with id chartjs-ext-tooltip in
    \* document.body, in document order, the mounted charts, the charts that
    \* asked for the overlay so far, and a record of the handler's calls: the
    \* kind of the latest call and what the latest show asked for
    bodyEls, charts, scroll, requesters, lastEvent,
    \* one gauge instance: mounted?, which component, its score prop, the
    \* circle's live stroke-dashoffset and the readout's text
    gaugeMounted, gaugeKind, gaugeScore, strokeDashoffset, textContent,
    \* the animations the anime.js engine is running, oldest first
    activeInstances,
    \* one useScrollReveal instance: mounted?, ref.current set?, its options,
    \* hasAnimated ref, isVisible state, whether its observer observes el,
    \* inline opacity of the container and of its children, the branch the
    \* last run of the effect took, and per-instance counts of anime() calls
    \* and of intersecting callbacks
    revMounted, elRendered, options, hasAnimated, isVisible, observing,
    elOpacity, childOpacity, lastAttach, animeCalls, entered,
    \* environment: prefers-reduced-motion, container inside the viewport
    reducedMotion, inViewport,
    \* ResultsPage loading: mounted?, the route id, the result, loading and
    \* error states, the id whose load set the error, and the ids of the
    \* fetches in flight, oldest first
    resultsMounted, resultsId, resultsResult, resultsLoading, resultsError, errorOf,
    resultsPending,
    \* ChatPage: mounted?, the route id, docName, the transcript, the input
    \* text, the loading state and the questions in flight
    chatMounted, chatId, docName, messages, input, chatLoading, chatPending,
    \* UploadPage: mounted?, processing, currentStep and error states, the
    \* step timers started so far (handle = position), the handles whose
    \* analyze request is in flight, and the route last navigated to
    uploadMounted, processing, currentStep, uploadError, intervals, analyzing,
    navigatedTo,
    \* the ids n with an item result_n in sessionStorage
    sessionStorage

metricVars == <<risk_score, compliance_score, dash, page>>
dataVars == <<result, derived>>
tooltipVars == <<bodyEls, charts, scroll, requesters, lastEvent>>
gaugeVars == <<gaugeMounted, gaugeKind, gaugeScore, strokeDashoffset, textContent>>
revealVars == <<revMounted, elRendered, options, hasAnimated, isVisible, observing,
                elOpacity, childOpacity, lastAttach, animeCalls, entered,
                reducedMotion, inViewport>>
loadVars == <<resultsMounted, resultsId, resultsResult, resultsLoading, resultsError,
              errorOf, resultsPending>>
chatVars == <<chatMounted, chatId, docName, messages, input, chatLoading, chatPending>>
uploadVars == <<uploadMounted, processing, currentStep, uploadError, intervals,
                analyzing, navigatedTo>>
pagesVars == <<loadVars, chatVars, uploadVars, sessionStorage>>
vars == <<metricVars, dataVars, tooltipVars, gaugeVars, activeInstances, revealVars,
          pagesVars>>

(* ---------------------- Dashboard: colours, verdict -------------------- *)

riskColor(score) ==
    IF score > 60 THEN "#f87171" ELSE IF score > 30 THEN "#fbbf24" ELSE "#4ade80"

\* compColor with the green boundary value excluded
compColor_strict(score) ==
    IF score > 70 THEN "#4ade80" ELSE IF score >= 40 THEN "#fbbf24" ELSE "#f87171"

compColor(score) ==
    IF score >= 70 THEN "#4ade80" ELSE IF score >= 40 THEN "#fbbf24" ELSE "#f87171"

\* verdict with the upper boundary value in the higher bucket
verdict_inclusive(score) ==
    IF score >= 60
    THEN [label |-> "High Risk - Review Before Signing", cls |-> "verdict-danger"]
    ELSE IF score > 30
         THEN [label |-> "Moderate Risk - Negotiate Key Clauses", cls |-> "verdict-warning"]
         ELSE [label |-> "Low Risk - Generally Safe to Proceed", cls |-> "verdict-safe"]

verdict(score) ==
    IF score > 60
    THEN [label |-> "High Risk - Review Before Signing", cls |-> "verdict-danger"]
    ELSE IF score > 30
         THEN [label |-> "Moderate Risk - Negotiate Key Clauses", cls |-> "verdict-warning"]
         ELSE [label |-> "Low Risk - Generally Safe to Proceed", cls |-> "verdict-safe"]

Dashboard(r, c) ==
    [riskColor |-> riskColor(r), compColor |-> compColor(c), verdict |-> verdict(r)]

(* ------------------------- static score gauge -------------------------- *)

\* the circumference 2*pi*radius is the unit of length: 100000 = one turn
circumference == 100000

\* the arc filling the other way round
offset_inverted(score) == (score * circumference) \div 100

offset(score) == circumference - (score * circumference) \div 100

\* ScoreGauge of the results page: the arc is drawn at its offset at once
ScoreGauge(score, color) ==
    [strokeDashoffset |-> offset(score), stroke |-> color, value |-> score]

(* ---------------------- ResultsPage: colours, class -------------------- *)

pageRiskColor(score) ==
    IF score > 60 THEN "#ef4444" ELSE IF score > 30 THEN "#f59e0b" ELSE "#22c55e"

complianceColor(score) ==
    IF score >= 70 THEN "#22c55e" ELSE IF score >= 40 THEN "#f59e0b" ELSE "#ef4444"

assessmentClass(score) ==
    IF score > 60 THEN "danger" ELSE IF score > 30 THEN "warning" ELSE "safe"

ResultsPage(r, c) ==
    [riskColor |-> pageRiskColor(r), complianceColor |-> complianceColor(c),
     assessmentClass |-> assessmentClass(r),
     riskGauge |-> ScoreGauge(r, pageRiskColor(r)),
     complianceGauge |-> ScoreGauge(c, complianceColor(c))]

\* before the first render nothing is derived
DashboardNotRendered ==
    [riskColor |-> "", compColor |-> "", verdict |-> [label |-> "", cls |-> ""]]
ResultsPageNotRendered ==
    [riskColor |-> "", complianceColor |-> "", assessmentClass |-> "",
     riskGauge |-> [strokeDashoffset |-> 0, stroke |-> "", value |-> 0],
     complianceGauge |-> [strokeDashoffset |-> 0, stroke |-> "", value |-> 0]]

\* the Dashboard renders the result it was handed
RenderDashboard ==
    /\ dash = DashboardNotRendered
    /\ dash' = Dashboard(risk_score, compliance_score)
    /\ UNCHANGED <<risk_score, compliance_score, page>>
    /\ UNCHANGED <<dataVars, tooltipVars, gaugeVars, activeInstances, revealVars>>
    /\ UNCHANGED pagesVars

\* the ResultsPage renders the result it loaded
RenderResultsPage ==
    /\ page = ResultsPageNotRendered
    /\ page' = ResultsPage(risk_score, compliance_score)
    /\ UNCHANGED <<risk_score, compliance_score, dash>>
    /\ UNCHANGED <<dataVars, tooltipVars, gaugeVars, activeInstances, revealVars>>
    /\ UNCHANGED pagesVars

(* ------------------- the analysis result and its parts ----------------- *)

Absent == <<>>
Present(v) == <<v>>
MaybeOf(S) == {Absent} \cup {Present(v) : v \in S}

\* m || d for an object, an array or a number m
OrElse(m, d) == IF m = Absent THEN d ELSE m[1]

SeqsUpTo(S, n) == UNION {[1..k -> S] : k \in 0..n}

Other == <<"o", "t", "h", "e", "r">>

\* risk_type strings; the empty one stands for a risk without risk_type
RiskTypeNames ==
    {<<>>, <<"i", "p", "_", "x">>, <<"i", "p", " ", "x">>, <<"f", "e", "e">>, Other}
Severities == {"high", "medium", "low"}
RiskItems == [risk_type : RiskTypeNames, severity : Severities]
ComplianceChecks == [found : BOOLEAN]
Finding == [clause_id |-> 1]
FindingLists == SeqsUpTo({Finding}, MaxTerms)

\* {}: an object without any of the fields read
EmptyCompliance == [details |-> Absent]
EmptyResponsibility ==
    [passive_voice |-> Absent, vague_terms |-> Absent,
     missing_subjects |-> Absent, ambiguity_score |-> Absent]

\* a result with every part present
FullResult(risks, details) ==
    [clause_analysis |-> Present(
        [risks |-> Present(risks),
         compliance |-> Present([details |-> Present(details)]),
         responsibility |-> Present(
            [passive_voice |-> Present(<<>>), vague_terms |-> Present(<<>>),
             missing_subjects |-> Present(<<>>), ambiguity_score |-> Present(20)])]),
     risk_score |-> Present(45), compliance_score |-> Present(80)]

\* scores around every threshold and beyond both ends of 0..100
ScoreSamples ==
    {0 - ScoreSlack, 0, 30, 31, 39, 40, 50, 51, 60, 61, 69, 70, 100, 100 + ScoreSlack}

\* a result with every part present and the given three scores
ScoredResult(r, c, a) ==
    [clause_analysis |-> Present(
        [risks |-> Present(<<>>),
         compliance |-> Present([details |-> Present(<<>>)]),
         responsibility |-> Present(
            [passive_voice |-> Present(<<>>), vague_terms |-> Present(<<>>),
             missing_subjects |-> Present(<<>>), ambiguity_score |-> Present(a)])]),
     risk_score |-> Present(r), compliance_score |-> Present(c)]

\* results in which any part may be absent
SparseResults ==
    [clause_analysis : MaybeOf(
        [risks : MaybeOf({<<>>, <<[risk_type |-> <<>>, severity |-> "high"]>>}),
         compliance : MaybeOf(
            [details : MaybeOf({<<>>, <<[found |-> TRUE]>>})]),
         responsibility : MaybeOf(
            [passive_voice : MaybeOf(FindingLists),
             vague_terms : MaybeOf(FindingLists),
             missing_subjects : MaybeOf(FindingLists),
             ambiguity_score : MaybeOf({20, 80})])]),
     risk_score : MaybeOf({0, 80}), compliance_score : MaybeOf({0, 80})]

(* ------------- the page hands the parts of a result over --------------- *)

\* the hand-over without the defaults
PageProps_noDefaults(res) ==
    LET ca == res.clause_analysis
    IN  [risks |-> IF ca = Absent THEN Absent ELSE ca[1].risks,
         compliance |-> IF ca = Absent THEN Absent ELSE ca[1].compliance,
         responsibility |-> IF ca = Absent THEN Absent ELSE ca[1].responsibility]

\* risks = ca?.risks || [], compliance = ca?.compliance || {},
\* responsibility = ca?.responsibility || {}
PageProps(res) ==
    LET ca == res.clause_analysis
    IN  [risks |-> Present(
            IF ca = Absent THEN <<>> ELSE OrElse(ca[1].risks, <<>>)),
         compliance |-> Present(
            IF ca = Absent THEN EmptyCompliance
            ELSE OrElse(ca[1].compliance, EmptyCompliance)),
         responsibility |-> Present(
            IF ca = Absent THEN EmptyResponsibility
            ELSE OrElse(ca[1].responsibility, EmptyResponsibility))]

(* ---------------- Dashboard: chart and grid data of a result ----------- *)

highRisks(risks) == SelectSeq(risks, LAMBDA r : r.severity = "high")
medRisks(risks) == SelectSeq(risks, LAMBDA r : r.severity = "medium")
lowRisks(risks) == SelectSeq(risks, LAMBDA r : r.severity = "low")

\* str.replace(/_/g, ' ')
ReplaceUnderscores(str) ==
    [i \in 1..Len(str) |-> IF str[i] = "_" THEN " " ELSE str[i]]

\* (r.risk_type || 'other').replace(/_/g, ' ')
riskTypeOf(r) ==
    ReplaceUnderscores(IF r.risk_type = <<>> THEN Other ELSE r.risk_type)

\* riskTypeMap[type] = (riskTypeMap[type] || 0) + 1 on the entries of the
\* map, which an object keeps in the order its keys were first set
CountType(entries, type) ==
    IF \E i \in 1..Len(entries) : entries[i][1] = type
    THEN [i \in 1..Len(entries) |->
            IF entries[i][1] = type THEN <<type, entries[i][2] + 1>> ELSE entries[i]]
    ELSE Append(entries, <<type, 1>>)

\* Object.entries(riskTypeMap) after the forEach over risks
RECURSIVE riskTypeMap(_, _)
riskTypeMap(risks, entries) ==
    IF risks = <<>> THEN entries
    ELSE riskTypeMap(Tail(risks), CountType(entries, riskTypeOf(Head(risks))))

\* the comparator (a, b) => a[1] - b[1]
byCount_ascending(a, b) == a[2] - b[2]

\* the comparator (a, b) => b[1] - a[1]
byCount(a, b) == b[2] - a[2]

\* one entry put into a sorted list behind every entry that does not
\* compare greater: Array.prototype.sort is stable
RECURSIVE InsertSorted(_, _)
InsertSorted(sorted, e) ==
    IF sorted = <<>> THEN <<e>>
    ELSE IF byCount(Head(sorted), e) > 0
         THEN <<e>> \o sorted
         ELSE <<Head(sorted)>> \o InsertSorted(Tail(sorted), e)

RECURSIVE SortEntries(_, _)
SortEntries(entries, sorted) ==
    IF entries = <<>> THEN sorted
    ELSE SortEntries(Tail(entries), InsertSorted(sorted, Head(entries)))

riskTypes(risks) == SortEntries(riskTypeMap(risks, <<>>), <<>>)

\* compliance.details || []
compDetails(compliance) == OrElse(compliance.details, <<>>)

\* the count of the checks not found
compFound_missing(details) == Len(SelectSeq(details, LAMBDA d : ~d.found))

\* compDetails.filter(d => d.found).length
compFound(details) == Len(SelectSeq(details, LAMBDA d : d.found))

\* (responsibility.passive_voice || []).length and its two siblings
passiveCount(responsibility) == Len(OrElse(responsibility.passive_voice, <<>>))
vagueCount(responsibility) == Len(OrElse(responsibility.vague_terms, <<>>))
missingSubCount(responsibility) == Len(OrElse(responsibility.missing_subjects, <<>>))

\* score > n and score >= n are false for an absent score
gt(score, n) == score # Absent /\ score[1] > n
ge(score, n) == score # Absent /\ score[1] >= n

dataRiskColor(score) ==
    IF gt(score, 60) THEN "#f87171" ELSE IF gt(score, 30) THEN "#fbbf24" ELSE "#4ade80"

dataCompColor(score) ==
    IF ge(score, 70) THEN "#4ade80" ELSE IF ge(score, 40) THEN "#fbbf24" ELSE "#f87171"

\* amber from 50 on
ambColor_inclusive(responsibility) ==
    IF OrElse(responsibility.ambiguity_score, 0) >= 50 THEN "#fbbf24" ELSE "#4ade80"

\* the ambiguity gauge of the results page, drawn only for a score present
pageAmbiguityGauge(responsibility) ==
    IF responsibility.ambiguity_score = Absent THEN Absent
    ELSE Present(ScoreGauge(responsibility.ambiguity_score[1],
                            IF responsibility.ambiguity_score[1] > 50
                            THEN "#f59e0b" ELSE "#22c55e"))

ambColor(responsibility) ==
    IF OrElse(responsibility.ambiguity_score, 0) > 50 THEN "#fbbf24" ELSE "#4ade80"

\* the verdict that takes a score above 100 for no high risk
dataVerdictCls_capped(score) ==
    IF gt(score, 60) /\ ~gt(score, 100) THEN "verdict-danger"
    ELSE IF gt(score, 30) THEN "verdict-warning" ELSE "verdict-safe"

dataVerdictCls(score) ==
    IF gt(score, 60) THEN "verdict-danger"
    ELSE IF gt(score, 30) THEN "verdict-warning" ELSE "verdict-safe"

\* the series with Low in front
riskDoughnutData_lowFirst(risks) ==
    [labels |-> <<"High", "Medium", "Low">>,
     data |-> <<Len(lowRisks(risks)), Len(medRisks(risks)), Len(highRisks(risks))>>]

riskDoughnutData(risks) ==
    [labels |-> <<"High", "Medium", "Low">>,
     data |-> <<Len(highRisks(risks)), Len(medRisks(risks)), Len(lowRisks(risks))>>]

\* reading a property of an absent prop throws
TypeError == [state |-> "error"]
NotDerived == [state |-> "none"]

\* what one render of Dashboard derives from its props
DashboardData(res, props) ==
    IF \/ props.risks = Absent
       \/ props.compliance = Absent
       \/ props.responsibility = Absent
    THEN TypeError
    ELSE LET risks == props.risks[1]
             compliance == props.compliance[1]
             responsibility == props.responsibility[1]
         IN  [state |-> "done",
              riskTypes |-> riskTypes(risks),
              riskDoughnutData |-> riskDoughnutData(risks),
              foundCount |-> compFound(compDetails(compliance)),
              totalCount |-> Len(compDetails(compliance)),
              passiveCount |-> passiveCount(responsibility),
              vagueCount |-> vagueCount(responsibility),
              missingSubCount |-> missingSubCount(responsibility),
              totalAmbiguity |-> passiveCount(responsibility)
                                 + vagueCount(responsibility)
                                 + missingSubCount(responsibility),
              riskColor |-> dataRiskColor(res.risk_score),
              compColor |-> dataCompColor(res.compliance_score),
              ambColor |-> ambColor(responsibility),
              verdictCls |-> dataVerdictCls(res.risk_score)]

\* the page renders the Dashboard with the parts of the loaded result
RenderDashboardData ==
    /\ derived = NotDerived
    /\ derived' = DashboardData(result, PageProps(result))
    /\ UNCHANGED result
    /\ UNCHANGED <<metricVars, tooltipVars, gaugeVars, activeInstances, revealVars>>
    /\ UNCHANGED pagesVars

(* ------------------------ shared tooltip overlay ----------------------- *)

TooltipId == "chartjs-ext-tooltip"

\* document.createElement('div') with id and innerHTML set: no inline style
NewTooltipEl ==
    [id |-> TooltipId, inner |-> <<>>, opacity |-> "", pointerEvents |-> "",
     left |-> 0, top |-> 0]

\* document.getElementById: index of the first element with that id, 0 if none
getElementById(els, id) ==
    IF \E i \in 1..Len(els) : els[i].id = id
    THEN CHOOSE i \in 1..Len(els) :
            /\ els[i].id = id
            /\ \A j \in 1..(i - 1) : els[j].id # id
    ELSE 0

\* creation without the lookup
getOrCreateTooltipEl_always(els) == Append(els, NewTooltipEl)

\* the body after the call; the element returned is getElementById of it
getOrCreateTooltipEl(els) ==
    IF getElementById(els, TooltipId) = 0 THEN Append(els, NewTooltipEl) ELSE els

\* where the canvas of chart c lies in the document
canvasOrigin(c) == [left |-> 10 * c, top |-> 20 * c]

\* chart.canvas.getBoundingClientRect() of chart c, relative to the viewport
canvasRect(c, scr) ==
    [left |-> canvasOrigin(c).left - scr.x, top |-> canvasOrigin(c).top - scr.y]

\* the tooltip models chart.js hands to the external handler
TooltipTitles == {<<>>, <<"High">>}
TooltipBodies == {<<[lines |-> <<"High: 2">>]>>,
                  <<[lines |-> <<"Low: 1">>], [lines |-> <<"a", "b">>]>>}
LabelColors == <<[borderColor |-> "#f87171"], [borderColor |-> "#4ade80"]>>
\* hasBody is the truth value of tooltip.body: an absent body is falsy, an
\* array of body items is truthy; the handler reads opacity only of a model
\* with opacity 0, which therefore comes in one shape
Tooltips ==
    [opacity : {1}, title : TooltipTitles, hasBody : {TRUE},
     body : TooltipBodies, caretX : {0, 7}, caretY : {3}]
    \cup [opacity : {1}, title : TooltipTitles, hasBody : {FALSE},
          body : {<<>>}, caretX : {0, 7}, caretY : {3}]
    \cup [opacity : {0}, title : {<<"High">>}, hasBody : {TRUE},
          body : {<<[lines |-> <<"High: 2">>]>>}, caretX : {7}, caretY : {3}]

\* one cht-title div per title line, then per body item one cht-line div per
\* line, each with the dot of that item's label colour
RECURSIVE LinesHtml(_, _)
LinesHtml(lines, dot) ==
    IF lines = <<>> THEN <<>>
    ELSE <<[cls |-> "cht-line", dot |-> dot, text |-> Head(lines)]>>
         \o LinesHtml(Tail(lines), dot)

RECURSIVE BodyHtml(_, _, _)
BodyHtml(bodyLines, labelColors, i) ==
    IF i > Len(bodyLines) THEN <<>>
    ELSE LinesHtml(bodyLines[i], labelColors[i].borderColor)
         \o BodyHtml(bodyLines, labelColors, i + 1)

TooltipHtml(tooltip) ==
    LET titleLines == tooltip.title
        bodyLines == [i \in 1..Len(tooltip.body) |-> tooltip.body[i].lines]
    IN  [i \in 1..Len(titleLines) |->
            [cls |-> "cht-title", dot |-> "", text |-> titleLines[i]]]
        \o BodyHtml(bodyLines, LabelColors, 1)

\* the handler without the scroll offset in the position
externalTooltipHandler_noScroll(els, c, tooltip, scr) ==
    LET els1 == getOrCreateTooltipEl(els)
        k == getElementById(els1, TooltipId)
        tooltipEl == els1[k]
        rect == canvasRect(c, scr)
    IN  IF tooltip.opacity = 0
        THEN [els1 EXCEPT ![k] =
                [tooltipEl EXCEPT !.opacity = "0", !.pointerEvents = "none"]]
        ELSE [els1 EXCEPT ![k] =
                [tooltipEl EXCEPT
                    !.inner = IF tooltip.hasBody THEN TooltipHtml(tooltip) ELSE @,
                    !.opacity = "1",
                    !.pointerEvents = "auto",
                    !.left = rect.left + tooltip.caretX,
                    !.top = rect.top + tooltip.caretY]]

\* the handler whose hide branch leaves pointer-events alone
externalTooltipHandler_hideKeepsPointer(els, c, tooltip, scr) ==
    LET els1 == getOrCreateTooltipEl(els)
        k == getElementById(els1, TooltipId)
        tooltipEl == els1[k]
        rect == canvasRect(c, scr)
    IN  IF tooltip.opacity = 0
        THEN [els1 EXCEPT ![k] = [tooltipEl EXCEPT !.opacity = "0"]]
        ELSE [els1 EXCEPT ![k] =
                [tooltipEl EXCEPT
                    !.inner = IF tooltip.hasBody THEN TooltipHtml(tooltip) ELSE @,
                    !.opacity = "1",
                    !.pointerEvents = "auto",
                    !.left = rect.left + scr.x + tooltip.caretX,
                    !.top = rect.top + scr.y + tooltip.caretY]]

\* the handler that moves the overlay only when it was hidden
externalTooltipHandler_keepPosition(els, c, tooltip, scr) ==
    LET els1 == getOrCreateTooltipEl(els)
        k == getElementById(els1, TooltipId)
        tooltipEl == els1[k]
        rect == canvasRect(c, scr)
        shown == tooltipEl.opacity = "1"
    IN  IF tooltip.opacity = 0
        THEN [els1 EXCEPT ![k] =
                [tooltipEl EXCEPT !.opacity = "0", !.pointerEvents = "none"]]
        ELSE [els1 EXCEPT ![k] =
                [tooltipEl EXCEPT
                    !.inner = IF tooltip.hasBody THEN TooltipHtml(tooltip) ELSE @,
                    !.opacity = "1",
                    !.pointerEvents = "auto",
                    !.left = IF shown THEN @ ELSE rect.left + scr.x + tooltip.caretX,
                    !.top = IF shown THEN @ ELSE rect.top + scr.y + tooltip.caretY]]

\* the document body after chart c's handler ran on the given tooltip model
externalTooltipHandler(els, c, tooltip, scr) ==
    LET els1 == getOrCreateTooltipEl(els)
        k == getElementById(els1, TooltipId)
        tooltipEl == els1[k]
        rect == canvasRect(c, scr)
    IN  IF tooltip.opacity = 0
        THEN [els1 EXCEPT ![k] =
                [tooltipEl EXCEPT !.opacity = "0", !.pointerEvents = "none"]]
        ELSE [els1 EXCEPT ![k] =
                [tooltipEl EXCEPT
                    !.inner = IF tooltip.hasBody THEN TooltipHtml(tooltip) ELSE @,
                    !.opacity = "1",
                    !.pointerEvents = "auto",
                    !.left = rect.left + scr.x + tooltip.caretX,
                    !.top = rect.top + scr.y + tooltip.caretY]]

\* the text lines a tooltip model carries: its title lines, then the lines
\* of its body items
RECURSIVE BodyTexts(_)
BodyTexts(body) ==
    IF body = <<>> THEN <<>> ELSE Head(body).lines \o BodyTexts(Tail(body))

EventTexts(tooltip) == tooltip.title \o BodyTexts(tooltip.body)

\* no call of the handler yet
NoEvent ==
    [kind |-> "none", hasBody |-> FALSE, texts |-> <<>>, bodyTexts |-> <<>>,
     left |-> 0, top |-> 0]

\* the record after chart c's call: a hide changes the kind only; a show
\* notes whether it had a body, its texts, the texts of the latest show
\* that had a body, and the point of the document it asked for
NoteEvent(last, c, tooltip) ==
    IF tooltip.opacity = 0 THEN [last EXCEPT !.kind = "hide"]
    ELSE [kind |-> "show",
          hasBody |-> tooltip.hasBody,
          texts |-> EventTexts(tooltip),
          bodyTexts |-> IF tooltip.hasBody THEN EventTexts(tooltip)
                        ELSE last.bodyTexts,
          left |-> canvasOrigin(c).left + tooltip.caretX,
          top |-> canvasOrigin(c).top + tooltip.caretY]

\* chart.js calls the external handler of a mounted chart
TooltipEvent(c, tooltip) ==
    /\ c \in charts
    /\ bodyEls' = externalTooltipHandler(bodyEls, c, tooltip, scroll)
    /\ requesters' = requesters \cup {c}
    /\ lastEvent' = NoteEvent(lastEvent, c, tooltip)
    /\ UNCHANGED <<charts, scroll>>
    /\ UNCHANGED <<metricVars, dataVars, gaugeVars, activeInstances, revealVars>>
    /\ UNCHANGED pagesVars

ChartMount(c) ==
    /\ c \notin charts
    /\ charts' = charts \cup {c}
    /\ UNCHANGED <<bodyEls, scroll, requesters, lastEvent>>
    /\ UNCHANGED <<metricVars, dataVars, gaugeVars, activeInstances, revealVars>>
    /\ UNCHANGED pagesVars

ChartUnmount(c) ==
    /\ c \in charts
    /\ charts' = charts \ {c}
    /\ UNCHANGED <<bodyEls, scroll, requesters, lastEvent>>
    /\ UNCHANGED <<metricVars, dataVars, gaugeVars, activeInstances, revealVars>>
    /\ UNCHANGED pagesVars

\* the user scrolls the page
ScrollOffsets == {[x |-> 0, y |-> 0], [x |-> 0, y |-> 100]}

PageScroll(scr) ==
    /\ scr # scroll
    /\ scroll' = scr
    /\ UNCHANGED <<bodyEls, charts, requesters, lastEvent>>
    /\ UNCHANGED <<metricVars, dataVars, gaugeVars, activeInstances, revealVars>>
    /\ UNCHANGED pagesVars

(* --------------------------- anime.js engine --------------------------- *)

\* what an animation writes to: the gauge circle's stroke-dashoffset, the
\* readout's counted object, the revealed container's or a child's opacity
Circle == [kind |-> "circle", index |-> 0]
Number == [kind |-> "number", index |-> 0]
El == [kind |-> "el", index |-> 0]
Child(i) == [kind |-> "child", index |-> i]

\* eased progress in per-mille after e of d centiseconds
easeOutCubic(e, d) == 1000 - ((((d - e) * 1000) \div d) ^ 3) \div 1000000

\* 1 - 2^(-10 e/d); 2^(-f) for a fractional f is taken on the chord
\* between 2^0 and 2^(-1)
easeOutExpo(e, d) ==
    IF e >= d THEN 1000
    ELSE LET n == (10 * e) \div d
             r == (10 * e) % d
         IN  1000 - (1000 - (500 * r) \div d) \div (2 ^ n)

Ease(easing, e, d) ==
    IF easing = "easeOutExpo" THEN easeOutExpo(e, d) ELSE easeOutCubic(e, d)

Clamp(x, lo, hi) == IF x < lo THEN lo ELSE IF x > hi THEN hi ELSE x

\* animations[i].currentValue of an instance at its current time, in
\* thousandths: the tween, rounded to a whole number when round is set
currentValue(ins, i) ==
    LET e == Clamp(ins.elapsed - ins.delays[i], 0, ins.duration)
        num == ins.from * 1000 + (ins.to - ins.from) * Ease(ins.easing, e, ins.duration)
    IN  IF ins.round THEN ((num + 500) \div 1000) * 1000 ELSE num

\* the value of target i of an instance at its current time, in units
TweenValue(ins, i) == currentValue(ins, i) \div 1000

RECURSIVE MaxDelay(_)
MaxDelay(delays) ==
    IF delays = <<>> THEN 0
    ELSE LET m == MaxDelay(Tail(delays))
         IN  IF Head(delays) > m THEN Head(delays) ELSE m

InstanceDuration(ins) == MaxDelay(ins.delays) + ins.duration

\* anime(params): a new running instance at time 0
anime(targets, delays, from, to, duration, easing, round) ==
    [targets |-> targets, delays |-> delays, from |-> from, to |-> to,
     duration |-> duration, easing |-> easing, round |-> round, elapsed |-> 0]

\* the instances one frame later: time advanced, finished ones dropped
StepInstances(instances) ==
    LET adv == [k \in 1..Len(instances) |->
                  [instances[k] EXCEPT !.elapsed =
                      Clamp(@ + FrameCs, 0, InstanceDuration(instances[k]))]]
    IN  SelectSeq(adv, LAMBDA ins : ins.elapsed < InstanceDuration(ins))

\* the instances ticked newest first, so that the oldest wrote last
RECURSIVE WrittenValue_oldestLast(_, _, _)
WrittenValue_oldestLast(instances, t, cur) ==
    IF instances = <<>> THEN cur
    ELSE LET ins == instances[Len(instances)]
             ticked == [ins EXCEPT !.elapsed =
                          Clamp(@ + FrameCs, 0, InstanceDuration(ins))]
             hit == {i \in 1..Len(ins.targets) : ins.targets[i] = t}
         IN  WrittenValue_oldestLast(SubSeq(instances, 1, Len(instances) - 1), t,
                 IF hit = {} THEN cur
                 ELSE TweenValue(ticked, CHOOSE i \in hit : TRUE))

\* the value target t holds after the instances ticked in engine order (the
\* last instance animating t wrote last), cur if none animates it
RECURSIVE WrittenValue(_, _, _)
WrittenValue(instances, t, cur) ==
    IF instances = <<>> THEN cur
    ELSE LET ins == Head(instances)
             ticked == [ins EXCEPT !.elapsed =
                          Clamp(@ + FrameCs, 0, InstanceDuration(ins))]
             hit == {i \in 1..Len(ins.targets) : ins.targets[i] = t}
         IN  WrittenValue(Tail(instances), t,
                 IF hit = {} THEN cur
                 ELSE TweenValue(ticked, CHOOSE i \in hit : TRUE))

\* the currentValue, in thousandths, the update callbacks of the instances
\* on target t handed over last in this frame, cur if none animates it
RECURSIVE WrittenCurrentValue(_, _, _)
WrittenCurrentValue(instances, t, cur) ==
    IF instances = <<>> THEN cur
    ELSE LET ins == Head(instances)
             ticked == [ins EXCEPT !.elapsed =
                          Clamp(@ + FrameCs, 0, InstanceDuration(ins))]
             hit == {i \in 1..Len(ins.targets) : ins.targets[i] = t}
         IN  WrittenCurrentValue(Tail(instances), t,
                 IF hit = {} THEN cur
                 ELSE currentValue(ticked, CHOOSE i \in hit : TRUE))

(* ------------------------- gauges and readout -------------------------- *)

RingDuration == 150
GaugeDuration == 120
GaugeDelay == 20
NumberDuration == 120

\* the from-to pair the other way round
ScoreRingEffect_swapped(score) ==
    anime(<<Circle>>, <<0>>, offset(score), circumference,
          RingDuration, "easeOutCubic", FALSE)

\* the effect of ScoreRing: animate the circle from empty to the offset
ScoreRingEffect(score) ==
    anime(<<Circle>>, <<0>>, circumference, offset(score),
          RingDuration, "easeOutCubic", FALSE)

\* the from-to pair the other way round
ScoreGaugeEffect_swapped(score) ==
    anime(<<Circle>>, <<GaugeDelay>>, offset(score), circumference,
          GaugeDuration, "easeOutCubic", FALSE)

\* the effect of ScoreGauge (animated version)
ScoreGaugeEffect(score) ==
    anime(<<Circle>>, <<GaugeDelay>>, circumference, offset(score),
          GaugeDuration, "easeOutCubic", FALSE)

\* the count-up without round: 1
AnimatedNumberEffect_noRound(value) ==
    anime(<<Number>>, <<0>>, 0, value, NumberDuration, "easeOutExpo", FALSE)

\* the effect of AnimatedNumber: count an object {val: 0} up to value
AnimatedNumberEffect(value) ==
    anime(<<Number>>, <<0>>, 0, value, NumberDuration, "easeOutExpo", TRUE)

\* the effects a gauge of that kind runs for a score, in child-first order
GaugeEffects(kind, score) ==
    IF kind = "ScoreRing"
    THEN <<AnimatedNumberEffect(score), ScoreRingEffect(score)>>
    ELSE <<ScoreGaugeEffect(score)>>

\* instances animating one of the given targets
InstancesOn(instances, ts) ==
    SelectSeq(instances, LAMBDA ins : \E i \in 1..Len(ins.targets) : ins.targets[i] \in ts)

GaugeTargets == {Circle, Number}

\* mount: first render (offset attribute = circumference, readout "0"),
\* then the effects; the next instance is followed once the engine has
\* finished with the previous one
GaugeMount(kind, score) ==
    /\ ~gaugeMounted
    /\ InstancesOn(activeInstances, GaugeTargets) = <<>>
    /\ gaugeMounted' = TRUE
    /\ gaugeKind' = kind
    /\ gaugeScore' = score
    /\ strokeDashoffset' = circumference
    /\ textContent' = 0
    /\ activeInstances' = activeInstances \o GaugeEffects(kind, score)
    /\ UNCHANGED <<metricVars, dataVars, tooltipVars, revealVars>>
    /\ UNCHANGED pagesVars

\* the score prop changes: value and offset are effect dependencies, so the
\* effects run again; a new instance sets its from-value at once
GaugeScoreChange(score) ==
    /\ gaugeMounted
    /\ score # gaugeScore
    /\ Len(activeInstances) + 2 <= MaxInstances
    /\ gaugeScore' = score
    /\ strokeDashoffset' = circumference
    /\ activeInstances' = activeInstances \o GaugeEffects(gaugeKind, score)
    /\ UNCHANGED <<gaugeMounted, gaugeKind, textContent>>
    /\ UNCHANGED <<metricVars, dataVars, tooltipVars, revealVars>>
    /\ UNCHANGED pagesVars

\* unmount: the refs become null; the effects return no cleanup
GaugeUnmount ==
    /\ gaugeMounted
    /\ gaugeMounted' = FALSE
    /\ UNCHANGED <<gaugeKind, gaugeScore, strokeDashoffset, textContent, activeInstances>>
    /\ UNCHANGED <<metricVars, dataVars, tooltipVars, revealVars>>
    /\ UNCHANGED pagesVars

(* ---------------------------- useScrollReveal -------------------------- *)

\* inline opacity in per-mille; Unset = no inline opacity on the element
Unset == 0 - 1

Children == 1..NumChildren
RevealTargets == {El} \cup {Child(i) : i \in Children}

\* the option sets of the call sites, the defaults, and two more
RevealOptions ==
    {[threshold |-> 15, staggerDelay |-> 5, staggerChildren |-> TRUE, animation |-> "tiltIn"],
     [threshold |-> 15, staggerDelay |-> 12, staggerChildren |-> TRUE, animation |-> "tiltIn"],
     [threshold |-> 15, staggerDelay |-> 5, staggerChildren |-> TRUE, animation |-> "slideUp"],
     [threshold |-> 15, staggerDelay |-> 6, staggerChildren |-> FALSE, animation |-> "slideUp"],
     [threshold |-> 50, staggerDelay |-> 6, staggerChildren |-> FALSE, animation |-> "fadeIn"]}

RevealState ==
    [isVisible |-> isVisible, observing |-> observing, elOpacity |-> elOpacity,
     childOpacity |-> childOpacity, lastAttach |-> lastAttach]

\* the effect without the hiding of the children in stagger mode
useScrollRevealEffect_noHide(st, opts, el, prefersReducedMotion) ==
    IF ~el THEN [st EXCEPT !.lastAttach = "noEl"]
    ELSE IF prefersReducedMotion
    THEN [st EXCEPT !.isVisible = TRUE, !.elOpacity = 1000, !.lastAttach = "reduced"]
    ELSE [st EXCEPT
            !.elOpacity = IF opts.staggerChildren THEN @ ELSE 0,
            !.observing = TRUE,
            !.lastAttach = "observe"]

\* the body of the effect, run with ref.current set or not and with the
\* reduced-motion media query matching or not
useScrollRevealEffect(st, opts, el, prefersReducedMotion) ==
    IF ~el THEN [st EXCEPT !.lastAttach = "noEl"]
    ELSE IF prefersReducedMotion
    THEN [st EXCEPT !.isVisible = TRUE, !.elOpacity = 1000, !.lastAttach = "reduced"]
    ELSE [st EXCEPT
            !.childOpacity = IF opts.staggerChildren THEN [i \in Children |-> 0] ELSE @,
            !.elOpacity = IF opts.staggerChildren THEN @ ELSE 0,
            !.observing = TRUE,
            !.lastAttach = "observe"]

\* a cleanup that leaves the observer connected
useScrollRevealCleanup_keep(st) == st

\* the cleanup the last run of the effect returned, if it returned one
useScrollRevealCleanup(st) ==
    IF st.lastAttach = "observe" THEN [st EXCEPT !.observing = FALSE] ELSE st

RevealDuration(animation) == IF animation = "tiltIn" THEN 80 ELSE 70

\* every child waiting the same staggerDelay
RevealAnime_sameDelay(opts) ==
    IF opts.staggerChildren
    THEN anime([i \in Children |-> Child(i)],
               [i \in Children |-> opts.staggerDelay],
               0, 1000, RevealDuration(opts.animation), "easeOutCubic", FALSE)
    ELSE anime(<<El>>, <<0>>, 0, 1000, RevealDuration(opts.animation),
               "easeOutCubic", FALSE)

\* anime.stagger(staggerDelay): child at index i (from 0) waits i * delay
RevealAnime(opts) ==
    IF opts.staggerChildren
    THEN anime([i \in Children |-> Child(i)],
               [i \in Children |-> (i - 1) * opts.staggerDelay],
               0, 1000, RevealDuration(opts.animation), "easeOutCubic", FALSE)
    ELSE anime(<<El>>, <<0>>, 0, 1000, RevealDuration(opts.animation),
               "easeOutCubic", FALSE)

\* the callback's test without the hasAnimated guard
RevealFires_unguarded(isIntersecting, fired) == isIntersecting

\* does the callback start the animation for this entry?
RevealFires(isIntersecting, fired) == isIntersecting /\ ~fired

SetRevealState(st) ==
    /\ isVisible' = st.isVisible
    /\ observing' = st.observing
    /\ elOpacity' = st.elOpacity
    /\ childOpacity' = st.childOpacity
    /\ lastAttach' = st.lastAttach

FreshRevealState ==
    [isVisible |-> FALSE, observing |-> FALSE, elOpacity |-> Unset,
     childOpacity |-> [i \in Children |-> Unset], lastAttach |-> "none"]

\* a component using the hook mounts; its container is rendered or not yet
RevealMount(opts, el) ==
    /\ ~revMounted
    /\ InstancesOn(activeInstances, RevealTargets) = <<>>
    /\ revMounted' = TRUE
    /\ elRendered' = el
    /\ options' = opts
    /\ hasAnimated' = FALSE
    /\ animeCalls' = 0
    /\ entered' = 0
    /\ SetRevealState(useScrollRevealEffect(FreshRevealState, opts, el, reducedMotion))
    /\ UNCHANGED <<reducedMotion, inViewport, activeInstances>>
    /\ UNCHANGED <<metricVars, dataVars, tooltipVars, gaugeVars>>
    /\ UNCHANGED pagesVars

\* a later render puts the container into the document; the dependencies
\* of the effect are unchanged, so it does not run
RenderEl ==
    /\ revMounted
    /\ ~elRendered
    /\ elRendered' = TRUE
    /\ UNCHANGED <<revMounted, options, hasAnimated, isVisible, observing, elOpacity,
                   childOpacity, lastAttach, animeCalls, entered, reducedMotion,
                   inViewport, activeInstances>>
    /\ UNCHANGED <<metricVars, dataVars, tooltipVars, gaugeVars>>
    /\ UNCHANGED pagesVars

\* a dependency changes: cleanup of the last run, then the effect again
OptionChange(opts) ==
    /\ revMounted
    /\ opts # options
    /\ options' = opts
    /\ SetRevealState(useScrollRevealEffect(useScrollRevealCleanup(RevealState),
                                            opts, elRendered, reducedMotion))
    /\ UNCHANGED <<revMounted, elRendered, hasAnimated, animeCalls, entered,
                   reducedMotion, inViewport, activeInstances>>
    /\ UNCHANGED <<metricVars, dataVars, tooltipVars, gaugeVars>>
    /\ UNCHANGED pagesVars

\* unmount: cleanup of the last run, ref.current becomes null
RevealUnmount ==
    /\ revMounted
    /\ revMounted' = FALSE
    /\ elRendered' = FALSE
    /\ SetRevealState(useScrollRevealCleanup(RevealState))
    /\ UNCHANGED <<options, hasAnimated, animeCalls, entered, reducedMotion,
                   inViewport, activeInstances>>
    /\ UNCHANGED <<metricVars, dataVars, tooltipVars, gaugeVars>>
    /\ UNCHANGED pagesVars

\* the IntersectionObserver callback, delivered while the observer observes
\* el, with entry.isIntersecting = container inside the viewport
ObserverCallback ==
    /\ observing
    /\ entered' = IF inViewport /\ entered < MaxEntered THEN entered + 1 ELSE entered
    /\ IF RevealFires(inViewport, hasAnimated)
       THEN /\ hasAnimated' = TRUE
            /\ isVisible' = TRUE
            /\ animeCalls' = animeCalls + 1
            /\ activeInstances' = Append(activeInstances, RevealAnime(options))
            /\ elOpacity' = IF options.staggerChildren THEN elOpacity ELSE 0
            /\ childOpacity' = IF options.staggerChildren
                               THEN [i \in Children |-> 0] ELSE childOpacity
            /\ observing' = FALSE
       ELSE UNCHANGED <<hasAnimated, isVisible, animeCalls, activeInstances,
                        elOpacity, childOpacity, observing>>
    /\ UNCHANGED <<revMounted, elRendered, options, lastAttach, reducedMotion, inViewport>>
    /\ UNCHANGED <<metricVars, dataVars, tooltipVars, gaugeVars>>
    /\ UNCHANGED pagesVars

\* the user switches the reduced-motion preference
ToggleReducedMotion ==
    /\ reducedMotion' = ~reducedMotion
    /\ UNCHANGED <<revMounted, elRendered, options, hasAnimated, isVisible, observing,
                   elOpacity, childOpacity, lastAttach, animeCalls, entered,
                   inViewport, activeInstances>>
    /\ UNCHANGED <<metricVars, dataVars, tooltipVars, gaugeVars>>
    /\ UNCHANGED pagesVars

\* scrolling moves the container into or out of the viewport
ViewportToggle ==
    /\ inViewport' = ~inViewport
    /\ UNCHANGED <<revMounted, elRendered, options, hasAnimated, isVisible, observing,
                   elOpacity, childOpacity, lastAttach, animeCalls, entered,
                   reducedMotion, activeInstances>>
    /\ UNCHANGED <<metricVars, dataVars, tooltipVars, gaugeVars>>
    /\ UNCHANGED pagesVars

(* ------------------------- one animation frame ------------------------- *)

\* the engine ticks every running instance, oldest first; the readout's
\* update callback writes only while its ref is set
AnimeFrame ==
    /\ activeInstances # <<>>
    /\ strokeDashoffset' = WrittenValue(activeInstances, Circle, strokeDashoffset)
    /\ textContent' = IF gaugeMounted
                      THEN WrittenCurrentValue(activeInstances, Number, textContent)
                      ELSE textContent
    /\ elOpacity' = WrittenValue(activeInstances, El, elOpacity)
    /\ childOpacity' = [i \in Children |->
                          WrittenValue(activeInstances, Child(i), childOpacity[i])]
    /\ activeInstances' = StepInstances(activeInstances)
    /\ UNCHANGED <<gaugeMounted, gaugeKind, gaugeScore>>
    /\ UNCHANGED <<revMounted, elRendered, options, hasAnimated, isVisible, observing,
                   lastAttach, animeCalls, entered, reducedMotion, inViewport>>
    /\ UNCHANGED <<metricVars, dataVars, tooltipVars>>
    /\ UNCHANGED pagesVars

(* ----------------------- ResultsPage: loading -------------------------- *)

NumResults == 2
MaxPending == 2

\* the ids a route /results/:id can carry
ResultIds == 1..NumResults

\* how a fetch of /api/history/:id ends: res.ok with data.result, a
\* response that is not ok, or a rejected fetch
Outcomes == {"ok", "notFound", "failed"}

ErrorMessage(outcome) ==
    IF outcome = "notFound" THEN "Result not found" ELSE "Failed to fetch"

\* the states of the page as records, to be rewritten by its handlers
LoadState ==
    [result |-> resultsResult, loading |-> resultsLoading, error |-> resultsError,
     errorOf |-> errorOf, pending |-> resultsPending]

\* loadResult for route id: the cached result if sessionStorage has one,
\* otherwise a fetch; neither loading nor error nor result is reset first
loadResult(st, id, storage) ==
    IF id \in storage
    THEN [st EXCEPT !.result = Present(id), !.loading = FALSE]
    ELSE [st EXCEPT !.pending = Append(@, id)]

\* the rest of loadResult once the fetch has ended
loadResultSettled(st, id, outcome) ==
    IF outcome = "ok"
    THEN [st EXCEPT !.result = Present(id), !.loading = FALSE]
    ELSE [st EXCEPT !.error = ErrorMessage(outcome), !.errorOf = id,
                    !.loading = FALSE]

SetLoadState(st) ==
    /\ resultsResult' = st.result
    /\ resultsLoading' = st.loading
    /\ resultsError' = st.error
    /\ errorOf' = st.errorOf
    /\ resultsPending' = st.pending

RemoveAt(seq, k) == SubSeq(seq, 1, k - 1) \o SubSeq(seq, k + 1, Len(seq))

\* the page mounts on /results/id: initial states, then the effect
ResultsMount(id) ==
    /\ ~resultsMounted
    /\ resultsMounted' = TRUE
    /\ resultsId' = id
    /\ SetLoadState(loadResult([result |-> Absent, loading |-> TRUE, error |-> "",
                                 errorOf |-> 0, pending |-> <<>>],
                                id, sessionStorage))
    /\ UNCHANGED <<metricVars, dataVars, tooltipVars, gaugeVars, activeInstances,
                   revealVars, chatVars, uploadVars, sessionStorage>>

\* the route id changes under the mounted page: the effect runs again
ResultsRouteChange(id) ==
    /\ resultsMounted
    /\ id # resultsId
    /\ Len(resultsPending) < MaxPending
    /\ resultsId' = id
    /\ SetLoadState(loadResult(LoadState, id, sessionStorage))
    /\ UNCHANGED resultsMounted
    /\ UNCHANGED <<metricVars, dataVars, tooltipVars, gaugeVars, activeInstances,
                   revealVars, chatVars, uploadVars, sessionStorage>>

\* the fetch at position k of the pending ones ends
LoadSettled(k, outcome) ==
    /\ resultsMounted
    /\ k \in 1..Len(resultsPending)
    /\ SetLoadState(loadResultSettled(
            [LoadState EXCEPT !.pending = RemoveAt(@, k)], resultsPending[k], outcome))
    /\ UNCHANGED <<resultsMounted, resultsId>>
    /\ UNCHANGED <<metricVars, dataVars, tooltipVars, gaugeVars, activeInstances,
                   revealVars, chatVars, uploadVars, sessionStorage>>

\* the page unmounts; what its pending fetches set later is dropped
ResultsUnmount ==
    /\ resultsMounted
    /\ resultsMounted' = FALSE
    /\ resultsPending' = <<>>
    /\ UNCHANGED <<resultsId, resultsResult, resultsLoading, resultsError, errorOf>>
    /\ UNCHANGED <<metricVars, dataVars, tooltipVars, gaugeVars, activeInstances,
                   revealVars, chatVars, uploadVars, sessionStorage>>

\* what the page renders: the spinner, the error box or the result
ResultsView ==
    IF resultsLoading THEN [kind |-> "spinner", of |-> resultsId]
    ELSE IF resultsError # "" THEN [kind |-> "error", of |-> errorOf]
    ELSE IF resultsResult = Absent THEN [kind |-> "error", of |-> resultsId]
    ELSE [kind |-> "result", of |-> resultsResult[1]]

(* ------------------------------ ChatPage ------------------------------- *)

MaxMessages == 5

\* texts handed to sendMessage, as sequences of characters: empty, blank,
\* a question, and a question with blanks around it
MessageTexts == {<<>>, <<" ">>, <<"q">>, <<" ", "r", " ">>}

\* String.prototype.trim
RECURSIVE TrimStart(_)
TrimStart(str) ==
    IF str # <<>> /\ Head(str) = " " THEN TrimStart(Tail(str)) ELSE str

RECURSIVE TrimEnd(_)
TrimEnd(str) ==
    IF str # <<>> /\ str[Len(str)] = " "
    THEN TrimEnd(SubSeq(str, 1, Len(str) - 1)) ELSE str

trim(str) == TrimEnd(TrimStart(str))

Greeting == [role |-> "assistant", content |-> <<"greeting">>]

\* how a question request ends: data.success with data.answer, a reply
\* without success (data.detail or the fallback text), or a rejected fetch
ChatOutcomes == {"answer", "detail", "failure"}

\* the page mounts on /chat/id: initial states, then the effect on [id]:
\* docName from the cached result, the transcript set to the greeting
ChatMount(id) ==
    /\ ~chatMounted
    /\ chatMounted' = TRUE
    /\ chatId' = id
    /\ docName' = IF id \in sessionStorage THEN Present(id) ELSE Absent
    /\ messages' = <<Greeting>>
    /\ input' = <<>>
    /\ chatLoading' = FALSE
    /\ chatPending' = <<>>
    /\ UNCHANGED <<metricVars, dataVars, tooltipVars, gaugeVars, activeInstances,
                   revealVars, loadVars, uploadVars, sessionStorage>>

\* the route id changes under the mounted page: the effect runs again;
\* loading and the request in flight stay as they are
ChatRouteChange(id) ==
    /\ chatMounted
    /\ id # chatId
    /\ chatId' = id
    /\ docName' = IF id \in sessionStorage THEN Present(id) ELSE docName
    /\ messages' = <<Greeting>>
    /\ UNCHANGED <<chatMounted, input, chatLoading, chatPending>>
    /\ UNCHANGED <<metricVars, dataVars, tooltipVars, gaugeVars, activeInstances,
                   revealVars, loadVars, uploadVars, sessionStorage>>

\* onChange of the input, which is disabled while loading
ChatType(text) ==
    /\ chatMounted
    /\ ~chatLoading
    /\ input' = text
    /\ UNCHANGED <<chatMounted, chatId, docName, messages, chatLoading, chatPending>>
    /\ UNCHANGED <<metricVars, dataVars, tooltipVars, gaugeVars, activeInstances,
                   revealVars, loadVars, uploadVars, sessionStorage>>

\* the guard of sendMessage
SendAccepted(text, loading) == ~(trim(text) = <<>> \/ loading)

\* sendMessage(text), up to its await
sendMessage(text) ==
    /\ chatMounted
    /\ IF SendAccepted(text, chatLoading)
       THEN /\ Len(messages) < MaxMessages
            /\ messages' = Append(messages, [role |-> "user", content |-> text])
            /\ input' = <<>>
            /\ chatLoading' = TRUE
            /\ chatPending' = Append(chatPending, [question |-> text, analysis_id |-> chatId])
       ELSE UNCHANGED <<messages, input, chatLoading, chatPending>>
    /\ UNCHANGED <<chatMounted, chatId, docName>>
    /\ UNCHANGED <<metricVars, dataVars, tooltipVars, gaugeVars, activeInstances,
                   revealVars, loadVars, uploadVars, sessionStorage>>

\* a quick-question button, never disabled
QuickQuestion(text) == sendMessage(text)

\* handleSubmit: sendMessage(input)
handleSubmit == sendMessage(input)

\* the rest of sendMessage once the request at position k has ended
ChatSettled(k, outcome) ==
    /\ chatMounted
    /\ k \in 1..Len(chatPending)
    /\ messages' = Append(messages, [role |-> "assistant", content |-> <<outcome>>])
    /\ chatLoading' = FALSE
    /\ chatPending' = RemoveAt(chatPending, k)
    /\ UNCHANGED <<chatMounted, chatId, docName, input>>
    /\ UNCHANGED <<metricVars, dataVars, tooltipVars, gaugeVars, activeInstances,
                   revealVars, loadVars, uploadVars, sessionStorage>>

\* the page unmounts; what its request in flight sets later is dropped
ChatUnmount ==
    /\ chatMounted
    /\ chatMounted' = FALSE
    /\ chatPending' = <<>>
    /\ UNCHANGED <<chatId, docName, messages, input, chatLoading>>
    /\ UNCHANGED <<metricVars, dataVars, tooltipVars, gaugeVars, activeInstances,
                   revealVars, loadVars, uploadVars, sessionStorage>>

(* ------------------------------ UploadPage ----------------------------- *)

MaxUploads == 2

\* STEPS.length
NumSteps == 10

\* 10 * 1024 * 1024
MaxFileSize == 10485760

\* file names as sequences of characters
FileNames ==
    {<<"a", ".", "p", "d", "f">>, <<"a", ".", "P", "D", "F">>,
     <<"a", ".", "d", "o", "c", "x">>, <<"a", ".", "t", "x", "t">>,
     <<"a", ".", "e", "x", "e">>, <<"p", "d", "f">>,
     <<"a", ".", "p", "d", "f", ".", "e", "x", "e">>}

FileSizes == {1, MaxFileSize, MaxFileSize + 1}

\* what handleFile is called with: a file, or undefined
Files == {Present([name |-> n, size |-> sz]) : n \in FileNames, sz \in FileSizes}
            \cup {Absent}

\* String.prototype.toLowerCase on one character
LowerChar(c) ==
    IF c = "P" THEN "p" ELSE IF c = "D" THEN "d" ELSE IF c = "F" THEN "f" ELSE c

toLowerCase(str) == [i \in 1..Len(str) |-> LowerChar(str[i])]

\* name.split('.').pop(): what follows the last dot, the name if it has none
RECURSIVE LastSegment(_)
LastSegment(str) ==
    IF str = <<>> THEN <<>>
    ELSE IF str[Len(str)] = "." THEN <<>>
    ELSE Append(LastSegment(SubSeq(str, 1, Len(str) - 1)), str[Len(str)])

ext(name) == <<".">> \o toLowerCase(LastSegment(name))

AllowedExts ==
    {<<".", "p", "d", "f">>, <<".", "d", "o", "c", "x">>, <<".", "t", "x", "t">>}

Unsupported == "Unsupported file type. Please upload PDF, DOCX, or TXT files."
TooLarge == "File too large. Maximum size is 10MB."
AnalysisFailed == "Analysis failed"

\* the validation of handleFile: the error it sets, "" if the file passes
Validate(file) ==
    IF ext(file.name) \notin AllowedExts THEN Unsupported
    ELSE IF file.size > MaxFileSize THEN TooLarge
    ELSE ""

\* the page mounts on /: initial states; the timers of an earlier instance
\* have been stopped once its requests have ended
UploadMount ==
    /\ ~uploadMounted
    /\ analyzing = {}
    /\ uploadMounted' = TRUE
    /\ processing' = FALSE
    /\ currentStep' = 0
    /\ uploadError' = ""
    /\ intervals' = <<>>
    /\ navigatedTo' = "/"
    /\ UNCHANGED <<analyzing, sessionStorage>>
    /\ UNCHANGED <<metricVars, dataVars, tooltipVars, gaugeVars, activeInstances,
                   revealVars, loadVars, chatVars>>

\* handleFile(file), up to its await: validation, then the states, the step
\* timer of animateSteps and the analyze request
handleFile(file) ==
    /\ uploadMounted
    /\ IF file = Absent
       THEN UNCHANGED <<processing, currentStep, uploadError, intervals, analyzing>>
       ELSE IF Validate(file[1]) # ""
       THEN /\ uploadError' = Validate(file[1])
            /\ UNCHANGED <<processing, currentStep, intervals, analyzing>>
       ELSE /\ Len(intervals) < MaxUploads
            /\ uploadError' = ""
            /\ processing' = TRUE
            /\ currentStep' = 0
            /\ intervals' = Append(intervals, [step |-> 0, running |-> TRUE])
            /\ analyzing' = analyzing \cup {Len(intervals) + 1}
    /\ UNCHANGED <<uploadMounted, navigatedTo, sessionStorage>>
    /\ UNCHANGED <<metricVars, dataVars, tooltipVars, gaugeVars, activeInstances,
                   revealVars, loadVars, chatVars>>

\* the callback of the step timer with handle h
IntervalTick(h) ==
    /\ h \in 1..Len(intervals)
    /\ intervals[h].running
    /\ LET step == intervals[h].step + 1
       IN  IF step < NumSteps
           THEN /\ intervals' = [intervals EXCEPT ![h].step = step]
                /\ currentStep' = IF uploadMounted THEN step ELSE currentStep
           ELSE /\ intervals' = [intervals EXCEPT ![h].step = step, ![h].running = FALSE]
                /\ UNCHANGED currentStep
    /\ UNCHANGED <<uploadMounted, processing, uploadError, analyzing, navigatedTo,
                   sessionStorage>>
    /\ UNCHANGED <<metricVars, dataVars, tooltipVars, gaugeVars, activeInstances,
                   revealVars, loadVars, chatVars>>

clearInterval(timers, h) == [timers EXCEPT ![h].running = FALSE]

\* the analyze request of the submission with timer h succeeded with a
\* result of that id: timer stopped, result stored, route changed
AnalyzeSucceeded(h, id) ==
    /\ h \in analyzing
    /\ analyzing' = analyzing \ {h}
    /\ intervals' = clearInterval(intervals, h)
    /\ sessionStorage' = sessionStorage \cup {id}
    /\ navigatedTo' = <<"/results/", id>>
    /\ uploadMounted' = FALSE
    /\ UNCHANGED <<processing, currentStep, uploadError>>
    /\ UNCHANGED <<metricVars, dataVars, tooltipVars, gaugeVars, activeInstances,
                   revealVars, loadVars, chatVars>>

\* the analyze request of the submission with timer h failed: a response
\* that is not ok, a rejected fetch or a body that is no JSON
AnalyzeFailed(h) ==
    /\ h \in analyzing
    /\ analyzing' = analyzing \ {h}
    /\ intervals' = clearInterval(intervals, h)
    /\ uploadError' = IF uploadMounted THEN AnalysisFailed ELSE uploadError
    /\ processing' = IF uploadMounted THEN FALSE ELSE processing
    /\ UNCHANGED <<uploadMounted, currentStep, navigatedTo, sessionStorage>>
    /\ UNCHANGED <<metricVars, dataVars, tooltipVars, gaugeVars, activeInstances,
                   revealVars, loadVars, chatVars>>

(* ------------------------------ behaviours ----------------------------- *)

InitRest ==
    /\ derived = NotDerived
    /\ dash = DashboardNotRendered
    /\ page = ResultsPageNotRendered
    /\ bodyEls = <<>>
    /\ charts = {}
    /\ scroll = [x |-> 0, y |-> 0]
    /\ requesters = {}
    /\ lastEvent = NoEvent
    /\ gaugeMounted = FALSE
    /\ gaugeKind = "ScoreRing"
    /\ gaugeScore = 0
    /\ strokeDashoffset = circumference
    /\ textContent = 0
    /\ activeInstances = <<>>
    /\ revMounted = FALSE
    /\ elRendered = FALSE
    /\ options = [threshold |-> 15, staggerDelay |-> 6, staggerChildren |-> FALSE,
                  animation |-> "slideUp"]
    /\ hasAnimated = FALSE
    /\ isVisible = FALSE
    /\ observing = FALSE
    /\ elOpacity = Unset
    /\ childOpacity = [i \in Children |-> Unset]
    /\ lastAttach = "none"
    /\ animeCalls = 0
    /\ entered = 0
    /\ reducedMotion = FALSE
    /\ inViewport = FALSE
    /\ resultsMounted = FALSE
    /\ resultsId = 1
    /\ resultsResult = Absent
    /\ resultsLoading = TRUE
    /\ resultsError = ""
    /\ errorOf = 0
    /\ resultsPending = <<>>
    /\ chatMounted = FALSE
    /\ chatId = 1
    /\ docName = Absent
    /\ messages = <<>>
    /\ input = <<>>
    /\ chatLoading = FALSE
    /\ chatPending = <<>>
    /\ uploadMounted = FALSE
    /\ processing = FALSE
    /\ currentStep = 0
    /\ uploadError = ""
    /\ intervals = <<>>
    /\ analyzing = {}
    /\ navigatedTo = "/"

Init ==
    /\ risk_score = 0
    /\ compliance_score = 0
    /\ result = FullResult(<<>>, <<>>)
    /\ sessionStorage = {}
    /\ InitRest

\* sessionStorage outlives a reload of the tab, so the pages may start with
\* any of the results stored
InitLoad ==
    /\ risk_score = 0
    /\ compliance_score = 0
    /\ result = FullResult(<<>>, <<>>)
    /\ sessionStorage \in SUBSET ResultIds
    /\ InitRest

\* the result handed to the pages carries any pair of scores
InitMetrics ==
    /\ risk_score \in Scores
    /\ compliance_score \in Scores
    /\ result = FullResult(<<>>, <<>>)
    /\ sessionStorage = {}
    /\ InitRest

\* the page loaded a result: one with any list of risks, one with any list
\* of compliance checks, a sparse one, or one with any three scores
InitData ==
    /\ risk_score = 0
    /\ compliance_score = 0
    /\ \/ \E rs \in SeqsUpTo(RiskItems, MaxRisks) : result = FullResult(rs, <<>>)
       \/ \E ds \in SeqsUpTo(ComplianceChecks, MaxDetails) : result = FullResult(<<>>, ds)
       \/ result \in SparseResults
       \/ \E r, c, a \in ScoreSamples : result = ScoredResult(r, c, a)
    /\ sessionStorage = {}
    /\ InitRest

GaugeKinds == {"ScoreRing", "ScoreGauge"}

NextMetrics == RenderDashboard \/ RenderResultsPage

NextData == RenderDashboardData

NextTooltip ==
    \/ \E c \in 1..NumCharts : ChartMount(c)
    \/ \E c \in 1..NumCharts : ChartUnmount(c)
    \/ \E c \in 1..NumCharts, t \in Tooltips : TooltipEvent(c, t)
    \/ \E scr \in ScrollOffsets : PageScroll(scr)

NextGauge ==
    \/ \E k \in GaugeKinds, s \in GaugeScores : GaugeMount(k, s)
    \/ \E s \in GaugeScores : GaugeScoreChange(s)
    \/ GaugeUnmount
    \/ AnimeFrame

NextLoad ==
    \/ \E id \in ResultIds : ResultsMount(id)
    \/ \E id \in ResultIds : ResultsRouteChange(id)
    \/ \E k \in 1..MaxPending, o \in Outcomes : LoadSettled(k, o)
    \/ ResultsUnmount

NextChat ==
    \/ \E id \in ResultIds : ChatMount(id)
    \/ \E id \in ResultIds : ChatRouteChange(id)
    \/ \E t \in MessageTexts : ChatType(t)
    \/ \E t \in MessageTexts : QuickQuestion(t)
    \/ handleSubmit
    \/ \E o \in ChatOutcomes : ChatSettled(1, o)
    \/ ChatUnmount

NextUpload ==
    \/ UploadMount
    \/ \E f \in Files : handleFile(f)
    \/ \E h \in 1..MaxUploads : IntervalTick(h)
    \/ \E h \in 1..MaxUploads, id \in ResultIds : AnalyzeSucceeded(h, id)
    \/ \E h \in 1..MaxUploads : AnalyzeFailed(h)

NextReveal ==
    \/ \E o \in RevealOptions, el \in BOOLEAN : RevealMount(o, el)
    \/ RenderEl
    \/ \E o \in RevealOptions : OptionChange(o)
    \/ RevealUnmount
    \/ ObserverCallback
    \/ ToggleReducedMotion
    \/ ViewportToggle
    \/ AnimeFrame

Next ==
    \/ NextMetrics \/ NextData \/ NextTooltip \/ NextGauge \/ NextReveal
    \/ NextLoad \/ NextChat \/ NextUpload

SpecMetrics == InitMetrics /\ [][NextMetrics]_vars
SpecData == InitData /\ [][NextData]_vars
SpecTooltip == Init /\ [][NextTooltip]_vars
SpecGauge == Init /\ [][NextGauge]_vars
SpecReveal == Init /\ [][NextReveal]_vars
SpecLoad == InitLoad /\ [][NextLoad]_vars
SpecChat == InitLoad /\ [][NextChat]_vars
SpecUpload == InitLoad /\ [][NextUpload]_vars

\* the engine's frame loop keeps running while an instance is active
SpecGaugeLive == Init /\ [][NextGauge]_vars /\ WF_vars(AnimeFrame)
Spec == Init /\ [][Next]_vars

(* ============================== properties ============================= *)

Danger(s) == s > 60
Warning(s) == 30 < s /\ s <= 60
Safe(s) == s <= 30

\* C3: for every integer risk_score in 0..100 the verdict class is danger
\* iff risk_score > 60, warning iff 30 < risk_score <= 60 and safe iff
\* risk_score <= 30, and the risk colour is red, amber and green in exactly
\* those three ranges, on the Dashboard and on the ResultsPage.
C3_RiskThresholds ==
    risk_score \in 0..100 =>
        /\ dash # DashboardNotRendered =>
            /\ dash.verdict.cls = "verdict-danger" <=> Danger(risk_score)
            /\ dash.verdict.cls = "verdict-warning" <=> Warning(risk_score)
            /\ dash.verdict.cls = "verdict-safe" <=> Safe(risk_score)
            /\ dash.riskColor = "#f87171" <=> Danger(risk_score)
            /\ dash.riskColor = "#fbbf24" <=> Warning(risk_score)
            /\ dash.riskColor = "#4ade80" <=> Safe(risk_score)
        /\ page # ResultsPageNotRendered =>
            /\ page.assessmentClass = "danger" <=> Danger(risk_score)
            /\ page.assessmentClass = "warning" <=> Warning(risk_score)
            /\ page.assessmentClass = "safe" <=> Safe(risk_score)
            /\ page.riskColor = "#ef4444" <=> Danger(risk_score)
            /\ page.riskColor = "#f59e0b" <=> Warning(risk_score)
            /\ page.riskColor = "#22c55e" <=> Safe(risk_score)

\* both pages rendered a result whose risk score is the boundary value 60
C3_Witness ==
    /\ risk_score = 60
    /\ dash.verdict.cls = "verdict-warning"
    /\ dash.riskColor = "#fbbf24"
    /\ page.assessmentClass = "warning"

\* C4: for every integer compliance_score in 0..100 the compliance colour
\* is green iff the score is >= 70, amber iff it is in 40..69 and red iff it
\* is < 40, whatever the risk score is.
C4_ComplianceThresholds ==
    compliance_score \in 0..100 =>
        /\ dash # DashboardNotRendered =>
            /\ dash.compColor = "#4ade80" <=> compliance_score >= 70
            /\ dash.compColor = "#fbbf24" <=> compliance_score \in 40..69
            /\ dash.compColor = "#f87171" <=> compliance_score < 40
        /\ page # ResultsPageNotRendered =>
            /\ page.complianceColor = "#22c55e" <=> compliance_score >= 70
            /\ page.complianceColor = "#f59e0b" <=> compliance_score \in 40..69
            /\ page.complianceColor = "#ef4444" <=> compliance_score < 40

\* a result with compliance 70 and the highest risk score renders green
C4_Witness ==
    /\ compliance_score = 70
    /\ risk_score = 100
    /\ dash.compColor = "#4ade80"
    /\ page.complianceColor = "#22c55e"

OverlayCount(els) == Cardinality({i \in 1..Len(els) : els[i].id = TooltipId})

\* C2: after any sequence of tooltip events from any charts, with charts
\* mounted and unmounted in between, at most one element with id
\* chartjs-ext-tooltip exists; the first request creates it and no later
\* request adds or removes an element.
C2_SingleOverlay ==
    /\ [](OverlayCount(bodyEls) <= 1 /\ (requesters # {} => Len(bodyEls) = 1))
    /\ [][bodyEls # <<>> => Len(bodyEls') = Len(bodyEls)]_vars

\* all charts asked for the overlay, one of them has been unmounted since
C2_Witness ==
    /\ requesters = 1..NumCharts
    /\ charts # 1..NumCharts
    /\ Len(bodyEls) = 1
    /\ bodyEls[1].opacity = "1"

\* C5 (as claimed): the target offset handed to the animation of a gauge is
\* circumference - (clamp(score,0,100)/100) * circumference, hence within
\* 0..circumference, also for scores below 0 and above 100.
C5_OffsetClamped ==
    \A k \in 1..Len(activeInstances) :
        activeInstances[k].targets = <<Circle>> =>
            /\ activeInstances[k].to \in 0..circumference
            /\ k = Len(activeInstances) =>
                  activeInstances[k].to =
                      circumference - (Clamp(gaugeScore, 0, 100) * circumference) \div 100

\* C9 (as claimed): once a gauge is torn down the engine holds no running
\* animation of its circle or its readout, so no frame of it runs later.
C9_ReleasedOnTeardown ==
    ~gaugeMounted => InstancesOn(activeInstances, GaugeTargets) = <<>>

\* the running animations of the gauge circle, oldest first
CircleInstances(instances) == InstancesOn(instances, {Circle})

\* a step in which the score of the mounted gauge changes
ScoreChanges == gaugeMounted /\ gaugeMounted' /\ gaugeScore' # gaugeScore

\* a step in which the gauge mounts
Mounts == ~gaugeMounted /\ gaugeMounted'

\* C11 (as claimed): when the score of a mounted gauge changes, the new fill
\* animation starts from the offset the arc shows at that moment, so the
\* shown offset does not jump back to the empty offset circumference.
C11_StartsFromCurrentOffset ==
    [][ScoreChanges =>
         LET new == CircleInstances(activeInstances')
         IN  /\ new[Len(new)].from = strokeDashoffset
             /\ strokeDashoffset' = strokeDashoffset]_vars

\* C11 (amended): when the score of a mounted gauge changes, a new fill
\* animation is started that runs from the empty offset circumference to the
\* offset of the new score, and the arc shows the empty offset at once.
C11_RestartsFromEmpty ==
    [][ScoreChanges =>
         LET new == CircleInstances(activeInstances')
         IN  /\ Len(new) = Len(CircleInstances(activeInstances)) + 1
             /\ new[Len(new)].from = circumference
             /\ new[Len(new)].to = offset(gaugeScore')
             /\ new[Len(new)].elapsed = 0
             /\ strokeDashoffset' = circumference]_vars

\* the score changed while the previous fill was under way
C11_Witness ==
    LET cs == CircleInstances(activeInstances)
    IN  /\ gaugeMounted
        /\ Len(cs) = 2
        /\ cs[1].elapsed > 0
        /\ cs[1].to # cs[2].to
        /\ cs[2].elapsed = 0
        /\ cs[2].to = offset(gaugeScore)
        /\ gaugeScore > 0
        /\ strokeDashoffset = circumference

\* C12: at mount the shown offset of a gauge is circumference, which differs
\* from the offset of its score whenever the score is above 0; while the
\* gauge stays mounted with the same score the shown offset eventually
\* equals the offset of the score, and once equal it stays equal.
C12_SettlesAtTarget ==
    /\ [][Mounts =>
            /\ strokeDashoffset' = circumference
            /\ gaugeScore' > 0 => strokeDashoffset' # offset(gaugeScore')]_vars
    /\ \A s \in GaugeScores :
          (gaugeMounted /\ gaugeScore = s) ~>
              (~gaugeMounted \/ gaugeScore # s \/ strokeDashoffset = offset(s))
    /\ [][(/\ gaugeMounted /\ gaugeMounted' /\ gaugeScore' = gaugeScore
           /\ strokeDashoffset = offset(gaugeScore))
          => strokeDashoffset' = strokeDashoffset]_vars

\* a fill ran to its end on a mounted gauge
C12_Witness ==
    /\ gaugeMounted
    /\ gaugeScore = 30
    /\ activeInstances = <<>>
    /\ strokeDashoffset = 70000

\* C13: the readout shows 0 at mount, a whole number in every frame of the
\* count-up, and exactly the score once the count-up has come to its end.
C13_ReadoutCountsUp ==
    /\ [](textContent % 1000 = 0)
    /\ [][Mounts => textContent' = 0]_vars
    /\ []((/\ gaugeMounted /\ gaugeKind = "ScoreRing"
           /\ InstancesOn(activeInstances, {Number}) = <<>>)
          => textContent = 1000 * gaugeScore)

\* a count-up to 30 came to its end, having shown a value in between
C13_Witness ==
    /\ gaugeMounted
    /\ gaugeKind = "ScoreRing"
    /\ gaugeScore = 30
    /\ InstancesOn(activeInstances, {Number}) = <<>>
    /\ textContent = 30000

(* ---------------------------- static gauges ---------------------------- *)

\* C22: the arc offset of a gauge falls strictly as the score rises over
\* 0..100: it is the circumference at score 0, 0 at score 100, and of two
\* scores the smaller has the greater offset.
C22_OffsetStrictlyDecreasing ==
    page # ResultsPageNotRendered =>
        /\ risk_score = 0 => page.riskGauge.strokeDashoffset = circumference
        /\ risk_score = 100 => page.riskGauge.strokeDashoffset = 0
        /\ (/\ risk_score \in 0..100
            /\ compliance_score \in 0..100
            /\ risk_score < compliance_score) =>
                page.riskGauge.strokeDashoffset > page.complianceGauge.strokeDashoffset

\* two gauges drawn for neighbouring scores
C22_Witness ==
    /\ page # ResultsPageNotRendered
    /\ risk_score = 99
    /\ compliance_score = 100
    /\ page.riskGauge.strokeDashoffset = 1000
    /\ page.complianceGauge.strokeDashoffset = 0

(* ---------------------------- derived data ---------------------------- *)

\* the parts of the loaded result, where it has them
RisksAbsent ==
    result.clause_analysis = Absent \/ result.clause_analysis[1].risks = Absent
GivenRisks == IF RisksAbsent THEN <<>> ELSE result.clause_analysis[1].risks[1]
ComplianceAbsent ==
    result.clause_analysis = Absent \/ result.clause_analysis[1].compliance = Absent
DetailsAbsent ==
    ComplianceAbsent \/ result.clause_analysis[1].compliance[1].details = Absent
GivenDetails ==
    IF DetailsAbsent THEN <<>> ELSE result.clause_analysis[1].compliance[1].details[1]
ResponsibilityAbsent ==
    result.clause_analysis = Absent \/ result.clause_analysis[1].responsibility = Absent
GivenResponsibility ==
    IF ResponsibilityAbsent THEN EmptyResponsibility
    ELSE result.clause_analysis[1].responsibility[1]

\* the category a risk is counted under: its risk_type with every
\* underscore turned into a space, other if it has none
CategoryOf(r) ==
    IF r.risk_type = <<>> THEN <<"o", "t", "h", "e", "r">>
    ELSE [i \in 1..Len(r.risk_type) |->
            IF r.risk_type[i] = "_" THEN " " ELSE r.risk_type[i]]

\* the risks of a category, and the place of the first of them
RisksOf(risks, cat) == {k \in 1..Len(risks) : CategoryOf(risks[k]) = cat}
FirstOf(risks, cat) ==
    CHOOSE k \in RisksOf(risks, cat) : \A j \in RisksOf(risks, cat) : k <= j

WithSeverity(risks, sev) == {k \in 1..Len(risks) : risks[k].severity = sev}

\* C18: the severity series has exactly the three entries High, Medium, Low
\* in this order, each the number of risks of that severity, 0 if there is
\* none.
C18_SeveritySeries ==
    derived.state = "done" =>
        LET series == derived.riskDoughnutData
        IN  /\ series.labels = <<"High", "Medium", "Low">>
            /\ Len(series.data) = 3
            /\ series.data[1] = Cardinality(WithSeverity(GivenRisks, "high"))
            /\ series.data[2] = Cardinality(WithSeverity(GivenRisks, "medium"))
            /\ series.data[3] = Cardinality(WithSeverity(GivenRisks, "low"))

\* two high risks and one low risk gave 2, 0, 1
C18_Witness ==
    /\ derived.state = "done"
    /\ Len(GivenRisks) = 3
    /\ Cardinality(WithSeverity(GivenRisks, "high")) = 2
    /\ Cardinality(WithSeverity(GivenRisks, "low")) = 1
    /\ derived.riskDoughnutData.data = <<2, 0, 1>>

\* C19: complianceFound is the number of entries of compliance.details with
\* found true, complianceTotal the length of details, and
\* 0 <= complianceFound <= complianceTotal.
C19_ComplianceCounts ==
    derived.state = "done" =>
        /\ derived.foundCount =
              Cardinality({k \in 1..Len(GivenDetails) : GivenDetails[k].found})
        /\ derived.totalCount = Len(GivenDetails)
        /\ 0 <= derived.foundCount
        /\ derived.foundCount <= derived.totalCount

\* eight checks, five of them found, gave 5 and 8
C19_Witness ==
    /\ derived.state = "done"
    /\ Len(GivenDetails) = 8
    /\ Cardinality({k \in 1..8 : GivenDetails[k].found}) = 5
    /\ derived.foundCount = 5
    /\ derived.totalCount = 8

C21_ClassifiedAsClamped ==
    (/\ derived.state = "done"
     /\ result.risk_score # Absent
     /\ result.compliance_score # Absent
     /\ GivenResponsibility.ambiguity_score # Absent) =>
        LET r == Clamp(result.risk_score[1], 0, 100)
            c == Clamp(result.compliance_score[1], 0, 100)
            a == Clamp(GivenResponsibility.ambiguity_score[1], 0, 100)
        IN  /\ derived.verdictCls = dataVerdictCls(Present(r))
            /\ derived.riskColor = dataRiskColor(Present(r))
            /\ derived.compColor = dataCompColor(Present(c))
            /\ derived.ambColor = IF a > 50 THEN "#fbbf24" ELSE "#4ade80"

\* a risk score above 100, a compliance score and an ambiguity score below 0
C21_Witness ==
    /\ derived.state = "done"
    /\ result.risk_score = Present(100 + ScoreSlack)
    /\ result.compliance_score = Present(0 - ScoreSlack)
    /\ GivenResponsibility.ambiguity_score = Present(0 - ScoreSlack)
    /\ derived.verdictCls = "verdict-danger"
    /\ derived.riskColor = "#f87171"
    /\ derived.compColor = "#f87171"
    /\ derived.ambColor = "#4ade80"

\* C23: the ambiguity colour is amber exactly if ambiguity_score is above
\* 50 and green otherwise, so 50 is green and 51 amber; without an
\* ambiguity_score the Dashboard takes it for 0 and shows green.
C23_AmbiguityColor ==
    derived.state = "done" =>
        LET a == GivenResponsibility.ambiguity_score
            gauge == pageAmbiguityGauge(PageProps(result).responsibility[1])
        IN  /\ derived.ambColor \in {"#fbbf24", "#4ade80"}
            /\ a # Absent =>
                  /\ derived.ambColor = "#fbbf24" <=> a[1] > 50
                  /\ gauge # Absent
                  /\ gauge[1].stroke = IF a[1] > 50 THEN "#f59e0b" ELSE "#22c55e"
            /\ a = Absent => derived.ambColor = "#4ade80" /\ gauge = Absent

\* an ambiguity score of 51 came out amber
C23_Witness ==
    /\ derived.state = "done"
    /\ GivenResponsibility.ambiguity_score = Present(51)
    /\ derived.ambColor = "#fbbf24"

(* ------------------------------- tooltip ------------------------------- *)

\* the overlay element, once the handler has created it
Overlay(els) == els[getElementById(els, TooltipId)]

\* the text lines an overlay content displays
Texts(inner) == [i \in 1..Len(inner) |-> inner[i].text]

\* what the overlay displayed before a call: nothing if it did not exist
TextsBefore(els) == IF els = <<>> THEN <<>> ELSE Texts(Overlay(els).inner)

\* the overlay is visible at the point of the document a show asked for
PlacedFor(el, show) ==
    /\ el.opacity = "1"
    /\ el.left = show.left
    /\ el.top = show.top

C15_HideKeepsContent ==
    /\ [](\A i \in 1..Len(bodyEls) :
            \/ bodyEls[i].opacity = "1" /\ bodyEls[i].pointerEvents = "auto"
            \/ bodyEls[i].opacity = "0" /\ bodyEls[i].pointerEvents = "none")
    /\ [][lastEvent'.kind = "hide" =>
            LET el == Overlay(bodyEls')
            IN  /\ el.opacity = "0"
                /\ el.pointerEvents = "none"
                /\ Texts(el.inner) = TextsBefore(bodyEls)
                /\ bodyEls # <<>> =>
                      /\ el.inner = Overlay(bodyEls).inner
                      /\ el.left = Overlay(bodyEls).left
                      /\ el.top = Overlay(bodyEls).top]_vars

\* the overlay was hidden after a show: content and position still there
C15_Witness ==
    /\ Len(bodyEls) = 1
    /\ lastEvent.kind = "hide"
    /\ bodyEls[1].opacity = "0"
    /\ bodyEls[1].pointerEvents = "none"
    /\ Texts(bodyEls[1].inner) = <<"High", "High: 2">>
    /\ bodyEls[1].left = canvasOrigin(1).left + 7

RevealTargetsOf(opts) ==
    IF opts.staggerChildren THEN {Child(i) : i \in Children} ELSE {El}

Opacity(t) == IF t = El THEN elOpacity ELSE childOpacity[t.index]

\* C1: one mounted reveal instance starts its entrance animation at most
\* once, whatever callbacks the sensor delivers: the first intersecting
\* callback sets hasAnimated and starts the animation, and hasAnimated is
\* never reset while the instance stays mounted.
C1_FiresAtMostOnce ==
    /\ [](/\ animeCalls <= 1
          /\ hasAnimated <=> animeCalls = 1
          /\ hasAnimated <=> entered >= 1)
    /\ [][(revMounted /\ revMounted' /\ hasAnimated) => hasAnimated']_vars

\* the instance got a second intersecting callback and animated once
C1_Witness ==
    /\ revMounted
    /\ entered >= 2
    /\ animeCalls = 1

\* C6: whenever the observer of the instance observes the container, every
\* target already has an inline opacity, and it is 0 until the animation
\* has been started.
C6_HiddenBeforeSubscribe ==
    observing =>
        \A t \in RevealTargetsOf(options) :
            /\ Opacity(t) # Unset
            /\ ~hasAnimated => Opacity(t) = 0

\* stagger mode, subscribed, not fired: children hidden, container untouched
C6_Witness ==
    /\ revMounted
    /\ observing
    /\ ~hasAnimated
    /\ options.staggerChildren
    /\ elOpacity = Unset
    /\ \A i \in Children : childOpacity[i] = 0

\* C7 (as claimed): after an attach under reduced motion the container is
\* fully visible, so are its children in stagger mode (once no animation
\* is writing to them), visible is reported, and nothing is subscribed.
C7_ReducedMotionVisible ==
    (revMounted /\ lastAttach = "reduced") =>
        /\ elOpacity = 1000
        /\ isVisible
        /\ ~observing
        /\ (options.staggerChildren /\ InstancesOn(activeInstances, RevealTargets) = <<>>)
              => \A i \in Children : childOpacity[i] \in {Unset, 1000}

\* C8 (as claimed): a mounted instance that has fired holds no active
\* sensor subscription.
C8_NoSubscriptionAfterFire ==
    (revMounted /\ hasAnimated) => ~observing

\* C10: an instance torn down before it fired holds no subscription, and no
\* step taken while it stays torn down starts an animation or changes its
\* state.
C10_ReleasedOnTeardown ==
    /\ [](~revMounted => ~observing)
    /\ [][(~revMounted /\ ~revMounted' /\ ~hasAnimated) =>
            UNCHANGED <<hasAnimated, isVisible, animeCalls, entered, elOpacity,
                        childOpacity, activeInstances>>]_vars

\* torn down after subscribing, never fired, container now in the viewport
C10_Witness ==
    /\ ~revMounted
    /\ lastAttach = "observe"
    /\ ~hasAnimated
    /\ entered = 0
    /\ inViewport

\* the animations of revealed children the engine is running
StaggerInstances ==
    SelectSeq(activeInstances, LAMBDA ins : ins.targets[1] = Child(1))

\* C24: when the reveal fires in stagger mode the child at index i (from 0)
\* starts i times the per-child delay later, so child 0 starts at once and
\* no child is ahead of one before it; outside stagger mode the single
\* target, the container, starts at once.
C24_StaggerDelays ==
    /\ [][animeCalls' = animeCalls + 1 =>
            LET ins == activeInstances'[Len(activeInstances')]
            IN  IF options.staggerChildren
                THEN /\ Len(ins.targets) = NumChildren
                     /\ \A i \in Children :
                           /\ ins.targets[i] = Child(i)
                           /\ ins.delays[i] = (i - 1) * options.staggerDelay
                ELSE ins.targets = <<El>> /\ ins.delays = <<0>>]_vars
    /\ [](\A k \in 1..Len(StaggerInstances) : \A i, j \in Children :
            i < j => TweenValue(StaggerInstances[k], i) >= TweenValue(StaggerInstances[k], j))

\* a cascade under way: the first child is ahead of the second
C24_Witness ==
    /\ revMounted
    /\ hasAnimated
    /\ options.staggerChildren
    /\ options.staggerDelay > 0
    /\ Len(StaggerInstances) = 1
    /\ StaggerInstances[1].elapsed > 0
    /\ childOpacity[1] > childOpacity[2]
    /\ childOpacity[2] > 0

\* the animations of the reveal the engine is running
RevealInstances == InstancesOn(activeInstances, RevealTargets)

\* C25 (as claimed): once a reveal instance has fired, a later run of the
\* effect for a changed option does not leave its targets at opacity 0:
\* when no animation of the reveal is running any more, none of the targets
\* the current options name is at opacity 0.
C25_NotLeftHidden ==
    (/\ revMounted
     /\ hasAnimated
     /\ ~reducedMotion
     /\ RevealInstances = <<>>) =>
        \A t \in RevealTargetsOf(options) : Opacity(t) # 0

\* C26 (as claimed): a controller whose container was not rendered when the
\* effect first ran attaches once the container is rendered: while it is
\* mounted with a rendered container and has not fired, its targets carry the
\* hidden style and its sensor is subscribed.
C26_AttachesOnceRendered ==
    (/\ revMounted
     /\ elRendered
     /\ ~reducedMotion
     /\ ~hasAnimated) =>
        /\ observing
        /\ \A t \in RevealTargetsOf(options) : Opacity(t) = 0

\* a step in which the engine runs a frame on a gauge that stays as it is
GaugeFrame ==
    /\ gaugeMounted /\ gaugeMounted'
    /\ gaugeScore' = gaugeScore
    /\ activeInstances' # activeInstances

\* the instance one frame later
Ticked(ins) ==
    [ins EXCEPT !.elapsed = Clamp(@ + FrameCs, 0, InstanceDuration(ins))]

\* C27: when the score changes while an earlier animation is running, the
\* newest animation decides what is shown: in every frame the arc takes the
\* value of the newest fill and the readout that of the newest count-up,
\* and once no animation of the gauge is running the arc is at the offset of
\* the latest score and the readout shows the latest score.
C27_LatestScoreWins ==
    /\ [][GaugeFrame =>
            LET cs == CircleInstances(activeInstances)
                ns == InstancesOn(activeInstances, {Number})
            IN  /\ cs # <<>> =>
                      /\ cs[Len(cs)].to = offset(gaugeScore)
                      /\ strokeDashoffset' = TweenValue(Ticked(cs[Len(cs)]), 1)
                /\ ns # <<>> =>
                      /\ ns[Len(ns)].to = gaugeScore
                      /\ textContent' = currentValue(Ticked(ns[Len(ns)]), 1)]_vars
    /\ []((gaugeMounted /\ InstancesOn(activeInstances, GaugeTargets) = <<>>) =>
             /\ strokeDashoffset = offset(gaugeScore)
             /\ gaugeKind = "ScoreRing" => textContent = 1000 * gaugeScore)

\* two fills for different scores are under way and the arc shows the value
\* of the newer one
C27_Witness ==
    LET cs == CircleInstances(activeInstances)
    IN  /\ gaugeMounted
        /\ Len(cs) = 2
        /\ cs[1].elapsed > cs[2].elapsed
        /\ cs[2].elapsed > 0
        /\ cs[2].to = offset(gaugeScore)
        /\ strokeDashoffset = TweenValue(cs[2], 1)
        /\ strokeDashoffset # TweenValue(cs[1], 1)

\* C28 (as claimed): once no load of the results page is in flight, what the
\* page displays belongs to the current route id: the result shown is the
\* one of that id and the error shown was set by the load of that id.
C28_ShownBelongsToRoute ==
    (resultsMounted /\ resultsPending = <<>>) =>
        /\ ResultsView.kind # "spinner"
        /\ ResultsView.of = resultsId

\* C29 (as claimed): in the chat page at most one question is in flight, and
\* the transcript after the greeting alternates strictly: the greeting is
\* followed by a user message, every user message by exactly one assistant
\* message, and only while a question is in flight the last message is a
\* user message.
C29_TranscriptAlternates ==
    chatMounted =>
        /\ Len(chatPending) <= 1
        /\ messages[1] = Greeting
        /\ \A i \in 2..Len(messages) :
              messages[i].role = IF i % 2 = 0 THEN "user" ELSE "assistant"
        /\ chatPending = <<>> => messages[Len(messages)].role = "assistant"

\* C30 (as claimed): on the upload page, for any sequence of file
\* submissions, the step index shown does not go down while processing
\* stays true and is always within 0..STEPS.length-1, a step timer runs only
\* while its analyze request is in flight, and a submission that validation
\* rejects starts no timer and sends no request.
C30_StepsAdvance ==
    /\ [][(processing /\ processing' /\ uploadMounted /\ uploadMounted') =>
             currentStep' >= currentStep]_vars
    /\ [](currentStep \in 0..(NumSteps - 1))
    /\ [](\A h \in 1..Len(intervals) : intervals[h].running => h \in analyzing)
    /\ [][(uploadError' # uploadError /\ uploadError' \in {Unsupported, TooLarge}) =>
             UNCHANGED <<intervals, analyzing>>]_vars

====
